---- MODULE Spec2Model ----
(***************************************************************************)
(* Model of the two websocket relay servers of hoh-realtime:               *)
(*   impl = "server" : src/server.js          (rooms map, one room per ws)  *)
(*   impl = "hoh"    : src/unnamed/part_000   (clients map, meta.rooms)     *)
(* One behaviour runs one of the two programs; Init chooses which, and the *)
(* value of the HOH_JWT_SECRET environment variable.                        *)
(***************************************************************************)
EXTENDS Integers, Sequences, FiniteSets, TLC

\* ---------------------------------------------------------------- bounds
MaxConns == 2
MaxFrames == 2

Conns == 1..MaxConns

\* ------------------------------------------------------- program constants
CloseMissing == 4001
CloseInvalid == 4002
CloseInternal == 1011
DefaultRoom == "team_chat"
DefaultSecret == "change-me-in-production"
BodyChat == "body_chat"

\* "from: { system: true }" of POST /emit; user ids are the positive integers
SystemFrom == 0

\* ------------------------------------------------------------------ inputs
\* values of process.env.HOH_JWT_SECRET; "" is unset
EnvSecrets == {"", "k1"}

\* the token query parameter: absent, or a JWT signed with some key
\* (a token signed with a key other than the server's is one jwt.verify rejects)
NoToken == [present |-> FALSE, key |-> ""]
Tokens == {NoToken} \cup {[present |-> TRUE, key |-> k] : k \in {"k1", DefaultSecret}}

\* the room query parameter of src/server.js; "" is absent
RoomParams == {"", "lobby"}

\* the rooms query parameter of part_000 as a sequence of characters, a room
\* name standing for the run of its letters; <<>> is absent
RoomsParams == { <<>>, <<" ", "lobby", " ", ",", ",", "body_chat", ",", " ">> }

\* inbound frames.  json: JSON.parse succeeds; null: the JSON value null;
\* type/room: "" when the field is absent; text: "absent", "empty" (""),
\* "blank" (only whitespace), "str" (the string "hi"), "num" (a number);
\* message: the 'message' field is an object; payload: "absent", "noevent"
\* (an object without 'event'), "event" (payload.event = "ping")
Frame(j, n, t, r, x, m, p) ==
  [json |-> j, null |-> n, type |-> t, room |-> r, text |-> x, message |-> m, payload |-> p]

Garbage == Frame(FALSE, FALSE, "", "", "absent", FALSE, "absent")
NullFrame == Frame(TRUE, TRUE, "", "", "absent", FALSE, "absent")
NoType == Frame(TRUE, FALSE, "", "", "absent", FALSE, "absent")
Typing(r) == Frame(TRUE, FALSE, "typing", r, "absent", FALSE, "absent")
Message(r, x) == Frame(TRUE, FALSE, "message", r, x, FALSE, "absent")
MessageNew(m) == Frame(TRUE, FALSE, "message:new", "", "absent", m, "absent")
Join(r) == Frame(TRUE, FALSE, "join", r, "absent", FALSE, "absent")
Leave(r) == Frame(TRUE, FALSE, "leave", r, "absent", FALSE, "absent")
Event(r, p) == Frame(TRUE, FALSE, "event", r, "absent", FALSE, p)

Frames ==
  {Garbage, NullFrame, NoType, Typing("lobby"), MessageNew(TRUE), MessageNew(FALSE),
   Message("", "str"), Message("lobby", "str"), Message("lobby", "blank"),
   Message("lobby", "num"), Join("lobby"), Leave("lobby"),
   Event("lobby", "event"), Event("lobby", "noevent")}

\* server.js reads only 'type' and 'text' of a frame
ServerFrames ==
  {Garbage, NullFrame, NoType, Typing("lobby"), Message("lobby", "str"), Join("lobby")}

\* frames sent on a connection the server has rejected
LateFrames == {Garbage, Message("lobby", "str"), Join("lobby")}

\* bodies of POST /emit: unparsable, or an object with optional room / event
EmitBodies ==
  {[json |-> FALSE, room |-> "", event |-> ""]}
  \cup {[json |-> TRUE, room |-> r, event |-> "announcement"] : r \in {"", "lobby", "nobody"}}
  \cup {[json |-> TRUE, room |-> "lobby", event |-> ""]}

NoEmit == [json |-> TRUE, room |-> "", event |-> ""]

\* outcomes of the fetch().then(res => res.json()) chain of message:new
FetchOutcomes == {"saved", "http_error_json", "rejected"}

\* ------------------------------------------------------------------- state
VARIABLES
  impl,        \* which program runs
  secret,      \* process.env.HOH_JWT_SECRET
  readyState,  \* ws.readyState per connection; "NONE" before the connection
  closeCode,   \* code of the ws.close() the server called, 0 if none
  handlers,    \* the connection handler reached ws.on('message', ...)
  user,        \* ws._user.id / meta.userId, 0 if none
  rooms,       \* server.js: Map roomName -> Set of ws
  wsRoom,      \* server.js: ws._room (equal to the handler's const room)
  clients,     \* part_000: keys of the clients Map in insertion order
  metaRooms,   \* part_000: meta.rooms of each ws
  pending,     \* part_000: fetches in flight, [ws, n]
  sent,        \* frames handed to ws.send, per connection, in order
  crashed,     \* an exception escaped an event handler: the process is gone
  nframes,     \* number of inbound frames and /emit requests so far
  last         \* the step just taken (history)

vars == <<impl, secret, readyState, closeCode, handlers, user, rooms, wsRoom,
          clients, metaRooms, pending, sent, crashed, nframes, last>>

\* outbound frames
\* rooms: the room list of 'connected'; n: the fetch a 'message:new' answers
Out(t, e, r, f, b) ==
  [type |-> t, event |-> e, room |-> r, rooms |-> {}, from |-> f, body |-> b, n |-> 0]

NoFrame == Frame(TRUE, FALSE, "", "", "absent", FALSE, "absent")
\* history record: op, acting connection, the frame handled, the
\* broadcastToRoom call the step made (bcast, room, except; except 0 = none),
\* the close code or HTTP status answered, the token of a connection request
\* param: the room / rooms query parameter of a connection request, as a
\* character sequence; emit: the body of a POST /emit; outcome: how the
\* fetch chain of a message:new ended; threw: the connection whose ws.send
\* threw inside the broadcastToRoom call, 0 if none did
Step(o, c, f, b, r, x, st) ==
  [op |-> o, ws |-> c, frame |-> f, bcast |-> b, room |-> r, except |-> x, status |-> st,
   token |-> NoToken, param |-> << >>, emit |-> NoEmit, outcome |-> "", threw |-> 0]

Connected(c, tok, prm, b, r, st) ==
  [Step("connection", c, NoFrame, b, r, 0, st) EXCEPT !.token = tok, !.param = prm]

Init ==
  /\ impl \in {"server", "hoh"}
  /\ secret \in EnvSecrets
  /\ readyState = [c \in Conns |-> "NONE"]
  /\ closeCode = [c \in Conns |-> 0]
  /\ handlers = [c \in Conns |-> FALSE]
  /\ user = [c \in Conns |-> 0]
  /\ rooms = [r \in {} |-> {}]
  /\ wsRoom = [c \in Conns |-> ""]
  /\ clients = << >>
  /\ metaRooms = [c \in Conns |-> {}]
  /\ pending = {}
  /\ sent = [c \in Conns |-> << >>]
  /\ crashed = FALSE
  /\ nframes = 0
  /\ last = Step("init", 0, NoFrame, FALSE, "", 0, 0)

\* connections are numbered in the order the server accepts them
IsNextConn(c) ==
  /\ readyState[c] = "NONE"
  /\ \A d \in Conns : d < c => readyState[d] # "NONE"

\* jwt.verify(token, key): succeeds iff the token was signed with key
jwtVerify(tok, key) == tok.key = key

\* ============================================================ src/server.js

\* const room = url.searchParams.get('room') || 'team_chat'
ServerRoomOf(roomParam) == IF roomParam = "" THEN DefaultRoom ELSE roomParam

\* joinRoom without the assignment to ws._room
joinRoomNoMark(ws, room) ==
  LET withKey == IF room \in DOMAIN rooms THEN rooms
                 ELSE [r \in DOMAIN rooms \cup {room} |-> IF r = room THEN {} ELSE rooms[r]]
  IN [rooms |-> [withKey EXCEPT ![room] = @ \cup {ws}],
      wsRoom |-> wsRoom]

\* joinRoom(ws, room): the rooms map and ws._room after the call
joinRoom(ws, room) ==
  LET withKey == IF room \in DOMAIN rooms THEN rooms
                 ELSE [r \in DOMAIN rooms \cup {room} |-> IF r = room THEN {} ELSE rooms[r]]
  IN [rooms |-> [withKey EXCEPT ![room] = @ \cup {ws}],
      wsRoom |-> [wsRoom EXCEPT ![ws] = room]]

\* leaveRoom without the deletion of the emptied room
leaveRoomNoPrune(ws) ==
  LET room == wsRoom[ws] IN
  IF room = "" THEN rooms
  ELSE IF room \notin DOMAIN rooms THEN rooms
  ELSE [rooms EXCEPT ![room] = @ \ {ws}]

\* leaveRoom(ws): the rooms map after the call
leaveRoom(ws) ==
  LET room == wsRoom[ws] IN
  IF room = "" THEN rooms
  ELSE IF room \notin DOMAIN rooms THEN rooms
  ELSE LET set == rooms[room] \ {ws} IN
       IF set = {} THEN [r \in DOMAIN rooms \ {room} |-> rooms[r]]
       ELSE [rooms EXCEPT ![room] = set]

\* if (client.readyState === WebSocket.OPEN)
ServerIsOpen(rs, client) == rs[client] = "OPEN"

\* the for-of loop of broadcastToRoom over the members not yet visited, in
\* the insertion order of the Set (connections join in the order of their
\* numbers); fail is the connection whose ws.send throws, 0 for none: the
\* exception leaves the loop.  The result is the frames sent and the
\* connection whose send threw
RECURSIVE ServerSendLoop(_, _, _, _, _)
ServerSendLoop(todo, rs, box, data, fail) ==
  IF todo = {} THEN [box |-> box, threw |-> 0]
  ELSE LET client == CHOOSE x \in todo : \A y \in todo : x <= y IN
       IF ServerIsOpen(rs, client) THEN
         IF client = fail THEN [box |-> box, threw |-> client]
         ELSE ServerSendLoop(todo \ {client}, rs,
                             [box EXCEPT ![client] = Append(@, data)], data, fail)
       ELSE ServerSendLoop(todo \ {client}, rs, box, data, fail)

\* broadcastToRoom(room, data) of server.js on the map rm
ServerBroadcastToRoom(rm, rs, box, room, data, fail) ==
  IF room \notin DOMAIN rm THEN [box |-> box, threw |-> 0]
  ELSE ServerSendLoop(rm[room], rs, box, data, fail)

\* the token checks of the connection handler of server.js: the code it
\* closes the connection with, 0 if it goes on
ServerAuth(tok) ==
  IF ~tok.present \/ secret = "" THEN CloseMissing
  ELSE IF ~jwtVerify(tok, secret) THEN CloseInvalid
  ELSE 0

\* wss.on('connection') of server.js
ServerConnection(c, tok, roomParam, fail) ==
  /\ impl = "server" /\ ~crashed
  /\ IsNextConn(c)
  /\ LET room == ServerRoomOf(roomParam) IN
     IF ServerAuth(tok) # 0 THEN
       \* ws.close(code, ...); return
       /\ readyState' = [readyState EXCEPT ![c] = "CLOSING"]
       /\ closeCode' = [closeCode EXCEPT ![c] = ServerAuth(tok)]
       /\ last' = Connected(c, tok, IF roomParam = "" THEN << >> ELSE <<roomParam>>, FALSE, "", ServerAuth(tok))
       /\ UNCHANGED <<handlers, user, rooms, wsRoom, sent>>
     ELSE
       LET j == joinRoom(c, room)
           rs == [readyState EXCEPT ![c] = "OPEN"]
           b == ServerBroadcastToRoom(j.rooms, rs, sent, room,
                                      Out("presence", "join", room, c, ""), fail)
           prm == IF roomParam = "" THEN << >> ELSE <<roomParam>>
       IN /\ user' = [user EXCEPT ![c] = c]
          /\ rooms' = j.rooms
          /\ wsRoom' = j.wsRoom
          /\ sent' = b.box
          /\ IF b.threw = 0 THEN
               /\ readyState' = rs
               /\ handlers' = [handlers EXCEPT ![c] = TRUE]
               /\ last' = Connected(c, tok, prm, TRUE, room, 0)
               /\ UNCHANGED closeCode
             ELSE
               \* catch (err) { ws.close(1011, ...) }: no listener is registered
               /\ readyState' = [readyState EXCEPT ![c] = "CLOSING"]
               /\ closeCode' = [closeCode EXCEPT ![c] = CloseInternal]
               /\ last' = [Connected(c, tok, prm, TRUE, room, CloseInternal)
                             EXCEPT !.threw = b.threw]
               /\ UNCHANGED handlers
  /\ UNCHANGED <<impl, secret, clients, metaRooms, pending, crashed, nframes>>

\* data.text || '' of the default branch; a non-JSON frame is its own text
ServerText(f) ==
  IF ~f.json THEN "raw"
  ELSE IF f.text = "str" THEN "hi"
  ELSE IF f.text = "blank" THEN "  "
  ELSE IF f.text = "num" THEN "5"
  ELSE ""

\* ws.on('message') of server.js
ServerOnMessage(c, f, fail) ==
  /\ impl = "server" /\ ~crashed
  /\ handlers[c] /\ readyState[c] = "OPEN"
  /\ nframes < MaxFrames
  /\ nframes' = nframes + 1
  /\ LET room == wsRoom[c] IN
     IF f.json /\ f.null THEN
       \* data.type on null: a TypeError escapes the listener
       /\ crashed' = TRUE
       /\ last' = Step("message", c, f, FALSE, "", 0, 0)
       /\ UNCHANGED sent
     ELSE
       \* an exception of ws.send escapes the listener
       LET data == IF f.json /\ f.type = "typing"
                   THEN Out("typing", "", room, user[c], "")
                   ELSE Out("message", "", room, user[c], ServerText(f))
           b == ServerBroadcastToRoom(rooms, readyState, sent, room, data, fail)
       IN /\ sent' = b.box
          /\ crashed' = (b.threw # 0)
          /\ last' = [Step("message", c, f, TRUE, room, 0, 0) EXCEPT !.threw = b.threw]
  /\ UNCHANGED <<impl, secret, readyState, closeCode, handlers, user, rooms,
                 wsRoom, clients, metaRooms, pending>>

\* ws.on('close') of server.js, run when the socket reaches CLOSED
ServerOnClose(c, fail) ==
  /\ impl = "server" /\ ~crashed
  /\ readyState[c] \in {"OPEN", "CLOSING"}
  /\ LET rs == [readyState EXCEPT ![c] = "CLOSED"] IN
     /\ readyState' = rs
     /\ IF handlers[c] THEN
          \* an exception of ws.send escapes the listener
          LET rm == leaveRoom(c)
              b == ServerBroadcastToRoom(rm, rs, sent, wsRoom[c],
                                         Out("presence", "leave", wsRoom[c], user[c], ""), fail)
          IN /\ rooms' = rm
             /\ sent' = b.box
             /\ crashed' = (b.threw # 0)
             /\ last' = [Step("close", c, NoFrame, TRUE, wsRoom[c], 0, 0) EXCEPT !.threw = b.threw]
        ELSE
          /\ last' = Step("close", c, NoFrame, FALSE, "", 0, 0)
          /\ UNCHANGED <<rooms, sent, crashed>>
  /\ UNCHANGED <<impl, secret, closeCode, handlers, user, wsRoom, clients,
                 metaRooms, pending, nframes>>

\* ===================================================== src/unnamed/part_000

\* const JWT_SECRET = process.env.HOH_JWT_SECRET || 'change-me-in-production'
HohJwtSecret == IF secret = "" THEN DefaultSecret ELSE secret

\* String.prototype.split(','): the pieces of a character sequence
RECURSIVE SplitComma(_, _)
SplitComma(str, piece) ==
  IF str = << >> THEN <<piece>>
  ELSE IF Head(str) = "," THEN <<piece>> \o SplitComma(Tail(str), << >>)
  ELSE SplitComma(Tail(str), Append(piece, Head(str)))

\* String.prototype.trim()
RECURSIVE TrimLeft(_)
TrimLeft(str) ==
  IF str # << >> /\ Head(str) = " " THEN TrimLeft(Tail(str)) ELSE str

RECURSIVE TrimRight(_)
TrimRight(str) ==
  IF str # << >> /\ str[Len(str)] = " " THEN TrimRight(SubSeq(str, 1, Len(str) - 1)) ELSE str

Trim(str) == TrimRight(TrimLeft(str))

\* query.rooms.split(',').forEach(r => { room = r.trim(); if (room) add })
\* (every piece of RoomsParams trims to at most one room name)
ParseRooms(roomsParam) ==
  IF roomsParam = << >> THEN {}
  ELSE LET pieces == SplitComma(roomsParam, << >>)
       IN {Trim(pieces[i])[1] : i \in {k \in 1..Len(pieces) : Trim(pieces[k]) # << >>}}

\* the tests without the one of meta.rooms
HohIsRecipientAnyRoom(rs, mr, ws, room, exceptWs) ==
  /\ rs[ws] = "OPEN"
  /\ ws # exceptWs

\* the tests without the readyState one
HohIsRecipientAnyState(rs, mr, ws, room, exceptWs) ==
  /\ room \in mr[ws]
  /\ ws # exceptWs

\* the three 'continue' tests of broadcastToRoom: ws is sent the message
HohIsRecipient(rs, mr, ws, room, exceptWs) ==
  /\ rs[ws] = "OPEN"
  /\ room \in mr[ws]
  /\ ws # exceptWs

\* the loop of broadcastToRoom over clients.entries() from index i; fail is
\* the connection whose ws.send throws, 0 for none: the exception leaves the
\* loop.  The result is the frames sent and the connection whose send threw
RECURSIVE HohSendLoop(_, _, _, _, _, _, _, _)
HohSendLoop(i, rs, mr, box, room, message, exceptWs, fail) ==
  IF i > Len(clients) THEN [box |-> box, threw |-> 0]
  ELSE LET ws == clients[i] IN
       IF HohIsRecipient(rs, mr, ws, room, exceptWs) THEN
         IF ws = fail THEN [box |-> box, threw |-> ws]
         ELSE HohSendLoop(i + 1, rs, mr, [box EXCEPT ![ws] = Append(@, message)],
                          room, message, exceptWs, fail)
       ELSE HohSendLoop(i + 1, rs, mr, box, room, message, exceptWs, fail)

\* broadcastToRoom(room, message, exceptWs = null) of part_000; 0 is null
HohBroadcastToRoom(rs, mr, box, room, message, exceptWs, fail) ==
  HohSendLoop(1, rs, mr, box, room, message, exceptWs, fail)

\* the token checks without the jwt.verify try/catch
HohAuthNoVerify(tok) ==
  IF ~tok.present THEN CloseMissing ELSE 0

\* the token checks of the connection handler of part_000: the code it
\* closes the connection with, 0 if it goes on
HohAuth(tok) ==
  IF ~tok.present THEN CloseMissing
  ELSE IF ~jwtVerify(tok, HohJwtSecret) THEN CloseInvalid
  ELSE 0

\* wss.on('connection') of part_000
HohConnection(c, tok, roomsParam) ==
  /\ impl = "hoh" /\ ~crashed
  /\ IsNextConn(c)
  /\ IF HohAuth(tok) # 0 THEN
       \* ws.close(code, ...); return
       /\ readyState' = [readyState EXCEPT ![c] = "CLOSING"]
       /\ closeCode' = [closeCode EXCEPT ![c] = HohAuth(tok)]
       /\ last' = Connected(c, tok, roomsParam, FALSE, "", HohAuth(tok))
       /\ UNCHANGED <<handlers, user, clients, metaRooms, sent>>
     ELSE
       LET joined == ParseRooms(roomsParam) IN
       /\ readyState' = [readyState EXCEPT ![c] = "OPEN"]
       /\ user' = [user EXCEPT ![c] = c]
       /\ clients' = Append(clients, c)
       /\ metaRooms' = [metaRooms EXCEPT ![c] = joined]
       /\ sent' = [sent EXCEPT ![c] =
                     Append(@, [Out("connected", "", "", c, "") EXCEPT !.rooms = joined])]
       /\ handlers' = [handlers EXCEPT ![c] = TRUE]
       /\ last' = Connected(c, tok, roomsParam, FALSE, "", 0)
       /\ UNCHANGED closeCode
  /\ UNCHANGED <<impl, secret, rooms, wsRoom, pending, crashed, nframes>>

\* the text of a legacy chat frame
HohText(f) == IF f.text = "str" THEN "hi" ELSE IF f.text = "blank" THEN "  " ELSE ""

\* meta.rooms.delete(room) of the leave branch, on the sets mr
HohLeave(mr, c, room) == [mr EXCEPT ![c] = @ \ {room}]

\* the join branch with the room set replaced instead of extended
HohJoinReplace(mr, c, room) == [mr EXCEPT ![c] = {room}]

\* meta.rooms.add(room) of the join branch, on the sets mr
HohJoin(mr, c, room) == [mr EXCEPT ![c] = @ \cup {room}]

\* ws.on('message') of part_000
HohOnMessage(c, f, fail) ==
  /\ impl = "hoh" /\ ~crashed
  /\ handlers[c] /\ readyState[c] = "OPEN"
  /\ nframes < MaxFrames
  /\ nframes' = nframes + 1
  /\ IF ~f.json THEN
       \* catch { return; }
       /\ last' = Step("message", c, f, FALSE, "", 0, 0)
       /\ UNCHANGED <<metaRooms, pending, sent, crashed>>
     ELSE IF f.null THEN
       \* const { type, room } = null: a TypeError escapes the listener
       /\ crashed' = TRUE
       /\ last' = Step("message", c, f, FALSE, "", 0, 0)
       /\ UNCHANGED <<metaRooms, pending, sent>>
     ELSE IF f.type = "message:new" THEN
       /\ metaRooms' = [metaRooms EXCEPT ![c] = @ \cup {BodyChat}]
       /\ last' = Step("message", c, f, FALSE, "", 0, 0)
       /\ IF f.message THEN
            /\ pending' = pending \cup {[ws |-> c, n |-> nframes + 1]}
            /\ UNCHANGED crashed
          ELSE
            \* msg.message.content on undefined: a TypeError escapes the listener
            /\ crashed' = TRUE
            /\ UNCHANGED pending
       /\ UNCHANGED sent
     ELSE IF f.type = "message" /\ f.room # "" THEN
       IF f.text \in {"absent", "empty"} THEN
         /\ last' = Step("message", c, f, FALSE, "", 0, 0)
         /\ UNCHANGED <<metaRooms, pending, sent, crashed>>
       ELSE IF f.text = "num" THEN
         \* msg.text.trim is not a function
         /\ crashed' = TRUE
         /\ last' = Step("message", c, f, FALSE, "", 0, 0)
         /\ UNCHANGED <<metaRooms, pending, sent>>
       ELSE IF f.text = "blank" THEN
         /\ last' = Step("message", c, f, FALSE, "", 0, 0)
         /\ UNCHANGED <<metaRooms, pending, sent, crashed>>
       ELSE
         \* an exception of ws.send escapes the listener
         LET b == HohBroadcastToRoom(readyState, metaRooms, sent, f.room,
                                     Out("message", "", f.room, user[c], HohText(f)), c, fail)
         IN /\ sent' = b.box
            /\ crashed' = (b.threw # 0)
            /\ last' = [Step("message", c, f, TRUE, f.room, c, 0) EXCEPT !.threw = b.threw]
            /\ UNCHANGED <<metaRooms, pending>>
     ELSE IF f.type = "join" /\ f.room # "" THEN
       /\ metaRooms' = HohJoin(metaRooms, c, f.room)
       /\ sent' = [sent EXCEPT ![c] = Append(@, Out("joined", "", f.room, 0, ""))]
       /\ last' = Step("message", c, f, FALSE, "", 0, 0)
       /\ UNCHANGED <<pending, crashed>>
     ELSE IF f.type = "leave" /\ f.room # "" THEN
       /\ metaRooms' = HohLeave(metaRooms, c, f.room)
       /\ sent' = [sent EXCEPT ![c] = Append(@, Out("left", "", f.room, 0, ""))]
       /\ last' = Step("message", c, f, FALSE, "", 0, 0)
       /\ UNCHANGED <<pending, crashed>>
     ELSE IF f.type = "event" /\ f.room # "" /\ f.payload = "event" THEN
       LET b == HohBroadcastToRoom(readyState, metaRooms, sent, f.room,
                                   Out("event", "ping", f.room, user[c], ""), c, fail)
       IN /\ sent' = b.box
          /\ crashed' = (b.threw # 0)
          /\ last' = [Step("message", c, f, TRUE, f.room, c, 0) EXCEPT !.threw = b.threw]
          /\ UNCHANGED <<metaRooms, pending>>
     ELSE
       /\ last' = Step("message", c, f, FALSE, "", 0, 0)
       /\ UNCHANGED <<metaRooms, pending, sent, crashed>>
  /\ UNCHANGED <<impl, secret, readyState, closeCode, handlers, user, rooms,
                 wsRoom, clients>>

\* the .then(res => res.json()).then(saved => broadcast).catch(log) chain of
\* one fetch: a response whose body is JSON reaches the broadcast whatever
\* its status; a network error or a body that is not JSON reaches the catch.
\* A saved message is the one posted: it carries user_id (from) and is the
\* n-th inbound frame; an error body carries no user
HohFetchDone(p, outcome, fail) ==
  /\ impl = "hoh" /\ ~crashed
  /\ p \in pending
  /\ pending' = pending \ {p}
  /\ IF outcome \in {"saved", "http_error_json"} THEN
       \* an exception of ws.send in the .then reaches the .catch
       LET b == HohBroadcastToRoom(readyState, metaRooms, sent, BodyChat,
                                   [Out("message:new", "", "",
                                        IF outcome = "saved" THEN user[p.ws] ELSE 0,
                                        outcome) EXCEPT !.n = p.n],
                                   p.ws, fail)
       IN /\ sent' = b.box
          /\ last' = [Step("fetch", p.ws, NoFrame, TRUE, BodyChat, p.ws, p.n)
                        EXCEPT !.outcome = outcome, !.threw = b.threw]
     ELSE
       /\ last' = [Step("fetch", p.ws, NoFrame, FALSE, "", 0, p.n) EXCEPT !.outcome = outcome]
       /\ UNCHANGED sent
  /\ UNCHANGED <<impl, secret, readyState, closeCode, handlers, user, rooms,
                 wsRoom, clients, metaRooms, crashed, nframes>>

\* the validation with the test of 'event' left out
EmitStatusRoomOnly(b) ==
  IF ~b.json THEN 400
  ELSE IF b.room = "" THEN 400
  ELSE 200

\* the status POST /emit answers: 400 from the catch of JSON.parse or from
\* if (!room || !event), else 200
EmitStatus(b) ==
  IF ~b.json THEN 400
  ELSE IF b.room = "" \/ b.event = "" THEN 400
  ELSE 200

\* server.on('request') for POST /emit, at the 'end' of the body
HohEmit(b, fail) ==
  /\ impl = "hoh" /\ ~crashed
  /\ nframes < MaxFrames
  /\ nframes' = nframes + 1
  /\ IF EmitStatus(b) # 200 THEN
       /\ last' = [Step("emit", 0, NoFrame, FALSE, b.room, 0, EmitStatus(b)) EXCEPT !.emit = b]
       /\ UNCHANGED sent
     ELSE
       \* an exception of ws.send reaches the catch of the request: 400
       LET bc == HohBroadcastToRoom(readyState, metaRooms, sent, b.room,
                                    Out("event", b.event, b.room, SystemFrom, ""), 0, fail)
       IN /\ sent' = bc.box
          /\ last' = [Step("emit", 0, NoFrame, TRUE, b.room, 0,
                            IF bc.threw = 0 THEN 200 ELSE 400)
                        EXCEPT !.emit = b, !.threw = bc.threw]
  /\ UNCHANGED <<impl, secret, readyState, closeCode, handlers, user, rooms,
                 wsRoom, clients, metaRooms, pending, crashed>>

\* the socket of a part_000 connection reaches CLOSED; the connection
\* handler registers no 'close' listener, so nothing else runs
HohClose(c) ==
  /\ impl = "hoh" /\ ~crashed
  /\ readyState[c] \in {"OPEN", "CLOSING"}
  /\ readyState' = [readyState EXCEPT ![c] = "CLOSED"]
  /\ last' = Step("close", c, NoFrame, FALSE, "", 0, 0)
  /\ UNCHANGED <<impl, secret, closeCode, handlers, user, rooms, wsRoom, clients,
                 metaRooms, pending, sent, crashed, nframes>>

\* ============================================================ both programs

\* the peer starts the closing handshake (or the network fails): readyState
\* is CLOSING until the socket is closed, and no further frame is read
PeerClosing(c) ==
  /\ ~crashed
  /\ readyState[c] = "OPEN"
  /\ readyState' = [readyState EXCEPT ![c] = "CLOSING"]
  /\ last' = Step("closing", c, NoFrame, FALSE, "", 0, 0)
  /\ UNCHANGED <<impl, secret, closeCode, handlers, user, rooms, wsRoom, clients,
                 metaRooms, pending, sent, crashed, nframes>>

\* a frame arrives on a connection the server rejected with ws.close(code)
\* before it registered any listener: the 'message' event has no listener
NoListener(c, f) ==
  /\ ~crashed
  /\ ~handlers[c] /\ readyState[c] = "CLOSING"
  /\ nframes < MaxFrames
  /\ nframes' = nframes + 1
  /\ last' = Step("dropped", c, f, FALSE, "", 0, 0)
  /\ UNCHANGED <<impl, secret, readyState, closeCode, handlers, user, rooms, wsRoom,
                 clients, metaRooms, pending, sent, crashed>>

\* ws.send does not throw on an open socket
Next ==
  \/ \E c \in Conns, tok \in Tokens, rp \in RoomParams : ServerConnection(c, tok, rp, 0)
  \/ \E c \in Conns, f \in ServerFrames : ServerOnMessage(c, f, 0)
  \/ \E c \in Conns : ServerOnClose(c, 0)
  \/ \E c \in Conns, tok \in Tokens, rp \in RoomsParams : HohConnection(c, tok, rp)
  \/ \E c \in Conns, f \in Frames : HohOnMessage(c, f, 0)
  \/ \E p \in pending, o \in FetchOutcomes : HohFetchDone(p, o, 0)
  \/ \E b \in EmitBodies : HohEmit(b, 0)
  \/ \E c \in Conns : HohClose(c)
  \/ \E c \in Conns : PeerClosing(c)
  \/ \E c \in Conns, f \in LateFrames : NoListener(c, f)

\* the ws.send of a broadcast to one connection may throw
NextThrow ==
  \/ \E c \in Conns, tok \in Tokens, rp \in RoomParams, fail \in 0..MaxConns :
       ServerConnection(c, tok, rp, fail)
  \/ \E c \in Conns, f \in ServerFrames, fail \in 0..MaxConns : ServerOnMessage(c, f, fail)
  \/ \E c \in Conns, fail \in 0..MaxConns : ServerOnClose(c, fail)
  \/ \E c \in Conns, tok \in Tokens, rp \in RoomsParams : HohConnection(c, tok, rp)
  \/ \E c \in Conns, f \in Frames, fail \in 0..MaxConns : HohOnMessage(c, f, fail)
  \/ \E p \in pending, o \in FetchOutcomes, fail \in 0..MaxConns : HohFetchDone(p, o, fail)
  \/ \E b \in EmitBodies, fail \in 0..MaxConns : HohEmit(b, fail)
  \/ \E c \in Conns : HohClose(c)
  \/ \E c \in Conns : PeerClosing(c)
  \/ \E c \in Conns, f \in LateFrames : NoListener(c, f)

Spec == Init /\ [][Next]_vars

SpecThrow == Init /\ [][NextThrow]_vars

\* ================================================================== claims

AllRooms == {"lobby", DefaultRoom, BodyChat, "nobody"}

\* the sessions a lookup of room r finds in the registry: the rooms map rm of
\* server.js, or the clients cl of part_000 whose meta.rooms mr has r
MembersIn(rm, cl, mr, r) ==
  IF impl = "server" THEN (IF r \in DOMAIN rm THEN rm[r] ELSE {})
  ELSE {cl[i] : i \in {k \in 1..Len(cl) : r \in mr[cl[k]]}}

Members(r) == MembersIn(rooms, clients, metaRooms, r)

\* the rooms session c itself lists: ws._room, or meta.rooms
JoinedRooms(c) ==
  IF impl = "server" THEN (IF wsRoom[c] = "" THEN {} ELSE {wsRoom[c]}) ELSE metaRooms[c]

Live(c) == readyState[c] \in {"OPEN", "CLOSING"}

\* sent[c] grew by exactly one frame in the step
GotOne(c) == Len(sent'[c]) = Len(sent[c]) + 1 /\ SubSeq(sent'[c], 1, Len(sent[c])) = sent[c]

NewFrame(c) == sent'[c][Len(sent'[c])]

\* C1: a step that calls broadcastToRoom(room, frame, except) sends the frame
\* exactly once to every session that is at that moment a member of the room,
\* open and not the excepted one, and sends nothing to any other session.
C1_BroadcastExact ==
  [][last'.bcast =>
       \A c \in Conns :
         IF /\ c \in MembersIn(rooms', clients', metaRooms', last'.room)
            /\ readyState'[c] = "OPEN"
            /\ c # last'.except
         THEN GotOne(c) /\ NewFrame(c).room \in {last'.room, ""}
         ELSE sent'[c] = sent[c]]_vars

\* a POST /emit to lobby reached an open member and skipped a closed one
C1_Witness ==
  /\ last.op = "emit" /\ last.bcast /\ last.room = "lobby"
  /\ \E c, d \in Conns :
       /\ readyState[c] = "OPEN" /\ c \in Members("lobby")
       /\ Len(sent[c]) > 0 /\ sent[c][Len(sent[c])].type = "event"
       /\ readyState[d] = "CLOSED" /\ d \in Members("lobby")

\* C2: when the connection of a session closes, no lookup finds the session
\* in any room afterwards, every remaining open member of each of its rooms
\* is sent exactly one presence 'leave' frame, and the session itself none.
C2_CloseLeavesAll ==
  [][(last'.op = "close" /\ handlers[last'.ws]) =>
       LET s == last'.ws IN
       /\ \A r \in AllRooms : s \notin MembersIn(rooms', clients', metaRooms', r)
       /\ \A r \in AllRooms : s \in Members(r) =>
            \A c \in Conns \ {s} : (c \in Members(r) /\ readyState[c] = "OPEN") =>
               sent'[c] = Append(sent[c], Out("presence", "leave", r, user[s], ""))
       /\ sent'[s] = sent[s]]_vars

\* C3: with A and B open members of lobby, a typing frame for lobby from A
\* sends B exactly one typing frame with A's identity and room lobby, and
\* sends A nothing.
C3_TypingScenario ==
  [][(/\ last'.op = "message" /\ last'.frame = Typing("lobby")
      /\ readyState[last'.ws] = "OPEN" /\ last'.ws \in Members("lobby")) =>
       LET a == last'.ws IN
       /\ sent'[a] = sent[a]
       /\ \A b \in Conns \ {a} : (b \in Members("lobby") /\ readyState[b] = "OPEN") =>
            sent'[b] = Append(sent[b], Out("typing", "", "lobby", user[a], ""))]_vars

\* the room a chat frame of session c targets: the room the frame names in
\* part_000, the room of the connection in server.js
ChatTarget(c, f) == IF impl = "server" THEN wsRoom[c] ELSE f.room

\* C4: a chat frame from session S is sent to every other open member of the
\* target room and never to S itself (a message:new frame when its write is
\* answered).
C4_ChatExcludesSender ==
  [][/\ (last'.op = "message" /\ last'.frame = Message("lobby", "str")) =>
          LET s == last'.ws IN
          /\ sent'[s] = sent[s]
          /\ \A c \in Conns \ {s} :
               (c \in Members(ChatTarget(s, last'.frame)) /\ readyState[c] = "OPEN") => GotOne(c)
     /\ (last'.op = "fetch" /\ last'.bcast) =>
          /\ sent'[last'.ws] = sent[last'.ws]
          /\ \A c \in Conns \ {last'.ws} :
               (c \in Members(BodyChat) /\ readyState[c] = "OPEN") => GotOne(c)]_vars

\* C5: a frame that is not JSON changes no membership, sends no frame to
\* anyone and leaves every connection as it was.
C5_GarbageDiscarded ==
  [][(last'.op = "message" /\ ~last'.frame.json) =>
       /\ sent' = sent
       /\ rooms' = rooms /\ wsRoom' = wsRoom /\ metaRooms' = metaRooms /\ clients' = clients
       /\ readyState' = readyState
       /\ ~crashed']_vars

\* frames that are JSON but not an object or lack a required field
MalformedFrames ==
  {NullFrame, NoType, Message("", "str"), MessageNew(FALSE), Event("lobby", "noevent")}

\* C6: the message handler completes for every JSON frame that is not an
\* object or lacks required fields: no exception escapes it (the process
\* lives), no connection is closed and no other session's membership changes.
C6_MalformedHandled ==
  [][(last'.op = "message" /\ last'.frame \in MalformedFrames) =>
       /\ ~crashed'
       /\ readyState' = readyState
       /\ \A d \in Conns \ {last'.ws} : metaRooms'[d] = metaRooms[d] /\ wsRoom'[d] = wsRoom[d]]_vars

\* the key the program verifies tokens with; "" if it has none
VerifyKey == IF impl = "server" THEN secret ELSE HohJwtSecret

InRegistry(rm, cl, c) ==
  \/ \E r \in DOMAIN rm : c \in rm[r]
  \/ \E i \in 1..Len(cl) : cl[i] = c

\* C7: a connection whose token is missing is closed with 4001 and one whose
\* token fails verification with 4002; for it no session is registered, no
\* frame is ever sent to it, no broadcast is made on its behalf, and a later
\* frame on it is not processed.
C7_RejectedConnection ==
  [][/\ (last'.op = "connection" /\ (~last'.token.present
                                     \/ (VerifyKey # "" /\ last'.token.key # VerifyKey))) =>
          LET c == last'.ws IN
          /\ closeCode'[c] = IF last'.token.present THEN CloseInvalid ELSE CloseMissing
          /\ readyState'[c] = "CLOSING"
          /\ ~last'.bcast /\ sent' = sent
          /\ rooms' = rooms /\ clients' = clients /\ metaRooms' = metaRooms
     /\ \A c \in Conns : closeCode'[c] # 0 =>
          /\ sent'[c] = << >>
          /\ ~InRegistry(rooms', clients', c) /\ metaRooms'[c] = {} /\ user'[c] = 0
          /\ (last'.ws = c /\ last'.op \in {"message", "dropped"}) =>
               /\ last'.op = "dropped"
               /\ sent' = sent /\ rooms' = rooms /\ metaRooms' = metaRooms
               /\ pending' = pending /\ ~crashed']_vars

\* a frame arrived on a connection rejected for an invalid token, while
\* another session is open
C7_Witness ==
  /\ last.op = "dropped"
  /\ closeCode[last.ws] = CloseInvalid
  /\ \E d \in Conns : readyState[d] = "OPEN" /\ handlers[d]

\* C8: without HOH_JWT_SECRET every connection is closed without a session,
\* with a code that is neither the missing-credential nor the
\* invalid-credential code.
C8_FailClosed ==
  (secret = "" /\ last.op = "connection") =>
     /\ ~handlers[last.ws] /\ ~InRegistry(rooms, clients, last.ws)
     /\ closeCode[last.ws] \notin {0, CloseMissing, CloseInvalid}

\* C9: for every live session S and room R, S lists R among its joined rooms
\* iff a lookup of R in the registry finds S.
C9_MembershipConsistent ==
  \A c \in Conns : Live(c) =>
    \A r \in AllRooms : (r \in JoinedRooms(c)) <=> (c \in Members(r))

\* server.js: a session is live in lobby after another session has left
C9_Witness ==
  /\ impl = "server" /\ last.op = "close" /\ handlers[last.ws]
  /\ \E c \in Conns : readyState[c] = "OPEN" /\ wsRoom[c] = "lobby" /\ c \in Members("lobby")

\* C10: no key of the rooms map of server.js maps to an empty set.
C10_NoEmptyRoom ==
  impl = "server" => \A r \in DOMAIN rooms : rooms[r] # {}

\* the last member of a room has closed and the room is gone, another remains
C10_Witness ==
  /\ impl = "server" /\ last.op = "close" /\ handlers[last.ws]
  /\ wsRoom[last.ws] \notin DOMAIN rooms
  /\ DOMAIN rooms # {}

\* the names a comma-separated list holds once trimmed, the empty ones left
\* out: every character of the list that is neither a comma nor a space
NamesOf(param) == {param[i] : i \in {k \in 1..Len(param) : param[k] \notin {",", " "}}}

CountType(frames, t) == Cardinality({i \in 1..Len(frames) : frames[i].type = t})

\* C11: an authenticated session is sent exactly one 'connected' frame in its
\* life, as its first frame; the frame lists the trimmed non-empty names of
\* the connect-time room list, and the session is then a member of exactly
\* those rooms.
C11_ConnectedOnce ==
  [][/\ (last'.op = "connection" /\ handlers'[last'.ws]) =>
          LET c == last'.ws IN
          /\ Len(sent'[c]) >= 1
          /\ sent'[c][1].type = "connected"
          /\ sent'[c][1].rooms = NamesOf(last'.param)
          /\ \A r \in AllRooms :
               c \in MembersIn(rooms', clients', metaRooms', r) <=> r \in NamesOf(last'.param)
     /\ \A c \in Conns : handlers'[c] =>
          /\ sent'[c][1].type = "connected"
          /\ CountType(sent'[c], "connected") = 1]_vars

\* C12: a POST /emit whose body has room and event sends the frame
\* {type:'event', room, event, from:{system:true}} exactly once to every open
\* member of the room, nobody excluded, and to no one else, answers 200, and
\* changes no membership; with no member it sends nothing and answers 200.
C12_EmitBroadcast ==
  [][(last'.op = "emit" /\ last'.emit.json /\ last'.emit.room # "" /\ last'.emit.event # "") =>
       /\ last'.status = 200
       /\ \A c \in Conns :
            IF c \in Members(last'.emit.room) /\ readyState[c] = "OPEN"
            THEN sent'[c] = Append(sent[c], Out("event", last'.emit.event, last'.emit.room,
                                               SystemFrom, ""))
            ELSE sent'[c] = sent[c]
       /\ metaRooms' = metaRooms /\ clients' = clients /\ rooms' = rooms]_vars

\* an emit to lobby reached two open members
C12_Witness ==
  /\ last.op = "emit" /\ last.status = 200 /\ last.emit.room = "lobby"
  /\ \E c, d \in Conns :
       /\ c # d
       /\ \A x \in {c, d} :
            /\ readyState[x] = "OPEN" /\ x \in Members("lobby")
            /\ sent[x][Len(sent[x])] = Out("event", "announcement", "lobby", SystemFrom, "")

\* C13: a POST /emit whose body is unparsable or lacks room or lacks event is
\* answered 400, sends no frame and changes no membership; an answer of 200
\* means the step made a broadcast.
C13_EmitRejected ==
  [][last'.op = "emit" =>
       /\ (~last'.emit.json \/ last'.emit.room = "" \/ last'.emit.event = "") =>
            /\ last'.status = 400
            /\ sent' = sent
            /\ metaRooms' = metaRooms /\ clients' = clients /\ rooms' = rooms
       /\ last'.status = 200 => last'.bcast
       /\ last'.status \in {200, 400}]_vars

\* an emit without event for a room that has an open member was refused
C13_Witness ==
  /\ last.op = "emit" /\ last.status = 400
  /\ last.emit.json /\ last.emit.room = "lobby" /\ last.emit.event = ""
  /\ \E c \in Conns : readyState[c] = "OPEN" /\ c \in Members("lobby")

\* session c of part_000 connected without a room list and has sent no join
\* frame: its 'connected' frame lists no room and it was sent no 'joined'
NeverJoined(frames) ==
  /\ Len(frames) >= 1
  /\ frames[1].type = "connected" /\ frames[1].rooms = {}
  /\ CountType(frames, "joined") = 0

\* C14: a session that connects without a room list and never sends a join
\* frame is never sent a broadcast frame and is never made a member of any
\* room of the registry.
C14_NoRoomNoBroadcast ==
  [][/\ (impl = "server" /\ last'.op = "connection" /\ handlers'[last'.ws]
                          /\ last'.param = << >>) =>
          /\ rooms' = rooms
          /\ sent'[last'.ws] = sent[last'.ws]
     /\ \A c \in Conns : (impl = "hoh" /\ NeverJoined(sent'[c])) =>
          /\ metaRooms'[c] = {}
          /\ \A i \in 1..Len(sent'[c]) : sent'[c][i].type \in {"connected", "left"}]_vars

\* C15: the chat frames one session sends reach every recipient in the order
\* sent: of two saved message:new frames of one sender that a session was
\* sent, the one of the earlier inbound frame comes first.
C15_PerSenderOrder ==
  \A c \in Conns : \A i, j \in 1..Len(sent[c]) :
    (/\ i < j
     /\ sent[c][i].type = "message:new" /\ sent[c][j].type = "message:new"
     /\ sent[c][i].body = "saved" /\ sent[c][j].body = "saved"
     /\ sent[c][i].from = sent[c][j].from)
    => sent[c][i].n < sent[c][j].n

\* C16: when the write of a message:new frame fails (the collaborator is
\* unreachable or answers with an error) no frame is sent to any session, no
\* connection is closed and the process lives; a message:new frame is only
\* broadcast for a write that succeeded.
C16_FailedWriteSuppressed ==
  [][(last'.op = "fetch" /\ last'.outcome # "saved") =>
       /\ sent' = sent
       /\ readyState' = readyState /\ handlers' = handlers /\ ~crashed'
       /\ metaRooms' = metaRooms]_vars

\* C17: when the send to one member throws during a broadcast to a room, every
\* other open member of the room that is not the excepted session is still
\* sent the frame once, the process lives (nothing reaches the handler that
\* called the broadcast) and an /emit request is still answered 200.
C17_FailureIsolated ==
  [][(last'.bcast /\ last'.threw # 0) =>
       /\ \A c \in MembersIn(rooms', clients', metaRooms', last'.room) :
            (c # last'.threw /\ c # last'.except /\ readyState'[c] = "OPEN") => GotOne(c)
       /\ ~crashed'
       /\ last'.op = "emit" => last'.status = 200]_vars

\* C18: in part_000 a 'join' frame for room R leaves the sender a member of R
\* and a 'leave' frame a non-member of R; the sender's other rooms and every
\* other session's rooms are unchanged, so a second join, or a leave of a
\* room not joined, changes no membership; the sender is sent exactly one
\* 'joined' / 'left' frame naming R and no other session is sent anything.
C18_JoinLeaveIdempotent ==
  [][(impl = "hoh" /\ last'.op = "message" /\ last'.frame.type \in {"join", "leave"}) =>
       LET c == last'.ws
           R == last'.frame.room
       IN /\ (R \in metaRooms'[c]) = (last'.frame.type = "join")
          /\ metaRooms'[c] \ {R} = metaRooms[c] \ {R}
          /\ \A d \in Conns \ {c} : metaRooms'[d] = metaRooms[d] /\ sent'[d] = sent[d]
          /\ ((R \in metaRooms[c]) = (last'.frame.type = "join")) => metaRooms' = metaRooms
          /\ clients' = clients
          /\ GotOne(c)
          /\ NewFrame(c).type = (IF last'.frame.type = "join" THEN "joined" ELSE "left")
          /\ NewFrame(c).room = R]_vars

\* a session joined the same room twice and was answered both times
C18_Witness ==
  /\ impl = "hoh" /\ last.op = "message" /\ last.frame = Join("lobby")
  /\ CountType(sent[last.ws], "joined") = 2
  /\ "lobby" \in metaRooms[last.ws]

\* C19: processing a 'message', 'message:new', 'typing' or 'event' frame
\* changes the room membership of no session, the sender included.
C19_OnlyJoinLeaveChange ==
  [][(last'.op = "message"
        /\ last'.frame.type \in {"message", "message:new", "typing", "event"}) =>
       /\ metaRooms' = metaRooms /\ clients' = clients
       /\ rooms' = rooms /\ wsRoom' = wsRoom]_vars

\* C20: a 'message' or 'event' frame naming room R whose sender is not a
\* member of R when the frame is processed causes no frame to be sent to
\* anyone.
C20_SenderIsMember ==
  [][(impl = "hoh" /\ last'.op = "message"
        /\ last'.frame.type \in {"message", "event"} /\ last'.frame.room # ""
        /\ last'.frame.room \notin metaRooms[last'.ws]) =>
       sent' = sent]_vars

====
